---- MODULE Spec2Model ----
(***************************************************************************)
(* Model of stacks/v2_stack.py: FinalCloudProjectV2Stack.                  *)
(*                                                                         *)
(* Part 1 is the construction pass of __init__, one action per statement,  *)
(* in program order.  Part 2 is the execution of the declared trigger      *)
(* graph by the Glue service once the stack is deployed: a scheduler that  *)
(* fires SCHEDULED triggers on their cron expression, job runs that end in *)
(* one of the terminal states, and the evaluation of CONDITIONAL triggers  *)
(* on each completion.  Part 2 reads nothing but the records built in      *)
(* part 1.                                                                 *)
(*                                                                         *)
(* Python strings are strings, an f-string is the \o of its pieces.  None   *)
(* is the string NoneValue, and an optional structured value is a sequence *)
(* of length 0 or 1.  A construct registers, besides itself, the resources *)
(* its options make it generate (policies, handlers and their roles).      *)
(* Time is counted in minutes; while nothing is pending it advances to the *)
(* next minute at which a schedule holds.                                  *)
(***************************************************************************)
EXTENDS Integers, Sequences, FiniteSets, TLC

VARIABLES
    pc,          \* index into Program of the next statement of __init__
    physical,    \* deploy-time bucket names, chosen by the environment
    statement,   \* the local secrets_manager_policy, <<>> before line 21
    roles,       \* iam.Role constructs declared by __init__, by construct id
    buckets,     \* s3.Bucket constructs, by construct id
    deployments, \* s3deploy.BucketDeployment constructs, by construct id
    workflows,   \* glue.CfnWorkflow constructs, by construct id
    jobs,        \* glue.CfnJob constructs, by construct id
    triggers,    \* glue.CfnTrigger constructs, by construct id
    template,    \* resources registered in the stack, in order: <<type, id>>
    deployed,    \* the stack has been deployed
    trigState,   \* Glue state of each trigger, by trigger name
    clock,       \* minute of the day, UTC
    day,         \* number of days elapsed since deployment
    due,         \* scheduled triggers that have fired in the current minute
    queue,       \* trigger firings whose actions have not been started yet
    events,      \* job-run completions not yet seen by the trigger evaluation
    run,         \* the current or last run of each job, by job name
    lastState,   \* terminal state of the last trigger-started run, by job name
    nFired,      \* firings so far, by trigger name
    nStart,      \* runs started so far, by job name
    nSucc        \* runs ended SUCCEEDED so far, by job name

cvars == <<pc, physical, statement, roles, buckets, deployments, workflows,
           jobs, triggers, template>>
rvars == <<deployed, trigState, clock, day, due, queue, events, run,
           lastState, nFired, nStart, nSucc>>
vars == <<pc, physical, statement, roles, buckets, deployments, workflows,
          jobs, triggers, template, deployed, trigState, clock, day, due,
          queue, events, run, lastState, nFired, nStart, nSucc>>

(***************************************************************************)
(* Bounds                                                                  *)
(***************************************************************************)
MaxDays == 2        \* days of operation explored after deployment
MaxDelay == 1       \* minutes the service may take to act on a firing

NoneValue == "<None>"
Empty == [x \in {} |-> x]

PhysicalNames == {"bucket-a", "bucket-b"}
BucketIds == {"final_data", "glue_scripts"}

(***************************************************************************)
(* Part 1: the construction pass                                           *)
(***************************************************************************)

\* __init__ with the two grants moved below the job declarations.
Program_grants_late ==
    << "glue_role", "secrets_manager_policy", "add_to_policy",
       "data_bucket", "scripts_bucket",
       "deploy_assets", "my_workflow", "ticketmaster_download_job",
       "fragments_to_parquet_job", "parquet_analysis_job",
       "grant_read_write", "grant_read",
       "job_1_trigger", "job_2_trigger", "job_3_trigger" >>

\* __init__ without the declaration of the third trigger.
Program_two_triggers ==
    << "glue_role", "secrets_manager_policy", "add_to_policy",
       "data_bucket", "scripts_bucket", "grant_read_write", "grant_read",
       "deploy_assets", "my_workflow", "ticketmaster_download_job",
       "fragments_to_parquet_job", "parquet_analysis_job",
       "job_1_trigger", "job_2_trigger" >>

\* The statements of __init__ in the order they are executed.
Program ==
    << "glue_role", "secrets_manager_policy", "add_to_policy",
       "data_bucket", "scripts_bucket", "grant_read_write", "grant_read",
       "deploy_assets", "my_workflow", "ticketmaster_download_job",
       "fragments_to_parquet_job", "parquet_analysis_job",
       "job_1_trigger", "job_2_trigger", "job_3_trigger" >>

At(stmt) == pc \in 1..Len(Program) /\ Program[pc] = stmt
Done == pc > Len(Program)

\* Registration of resources in the stack; a singleton is registered once.
Register(t, rs) ==
    LET F[i \in 0..Len(rs)] ==
            IF i = 0 THEN t
            ELSE IF \E k \in 1..Len(F[i-1]) : F[i-1][k] = rs[i]
                 THEN F[i-1]
                 ELSE Append(F[i-1], rs[i])
    IN F[Len(rs)]

Count(type) == Cardinality({k \in 1..Len(template) : template[k][1] = type})

\* Token for an attribute resolved at deploy time.
GetAtt(id, attr) == "${" \o id \o "." \o attr \o "}"

\* iam.Role(self, "my_glue_role", ...)
glue_role ==
    [ id               |-> "my_glue_role",
      assumed_by       |-> "glue.amazonaws.com",
      managed_policies |-> {"service-role/AWSGlueServiceRole"},
      statements       |-> <<>>,
      role_arn         |-> GetAtt("my_glue_role", "Arn") ]

Construct_glue_role ==
    /\ At("glue_role")
    /\ roles' = roles @@ ("my_glue_role" :> glue_role)
    /\ template' = Register(template, << <<"AWS::IAM::Role", "my_glue_role">> >>)
    /\ pc' = pc + 1
    /\ UNCHANGED <<physical, statement, buckets, deployments, workflows,
                   jobs, triggers>>
    /\ UNCHANGED rvars

\* The statement with every secret as its resource.
secrets_manager_policy_wide ==
    [ effect    |-> "ALLOW",
      actions   |-> <<"secretsmanager:GetSecretValue">>,
      resources |-> <<"*">> ]

\* iam.PolicyStatement(effect=ALLOW, actions=[...], resources=[...])
secrets_manager_policy ==
    [ effect    |-> "ALLOW",
      actions   |-> <<"secretsmanager:GetSecretValue">>,
      resources |-> <<"arn:aws:secretsmanager:us-west-2:943686807189:secret:finalproject/daniel/ticketmaster-Gu2UO4">> ]

Construct_secrets_manager_policy ==
    /\ At("secrets_manager_policy")
    /\ statement' = <<secrets_manager_policy>>
    /\ pc' = pc + 1
    /\ UNCHANGED <<physical, roles, buckets, deployments, workflows, jobs,
                   triggers, template>>
    /\ UNCHANGED rvars

\* Role.add_to_policy(statement): the statement goes to the role's default
\* policy, a resource of its own created on first use.
AddToPrincipalPolicy(id, stmt) ==
    /\ roles' = [roles EXCEPT ![id].statements = Append(@, stmt)]
    /\ template' = Register(template,
                            << <<"AWS::IAM::Policy", id \o "/DefaultPolicy">> >>)

add_to_policy ==
    /\ At("add_to_policy")
    /\ AddToPrincipalPolicy("my_glue_role", statement[1])
    /\ pc' = pc + 1
    /\ UNCHANGED <<physical, statement, buckets, deployments, workflows,
                   jobs, triggers>>
    /\ UNCHANGED rvars

\* s3.Bucket(self, id, ...).  bucket_name resolves at deploy time to the name
\* the environment gives the bucket.
data_bucket ==
    [ id                  |-> "final_data",
      versioned           |-> TRUE,
      public_read_access  |-> TRUE,
      block_public_access |-> NoneValue,
      removal_policy      |-> "DESTROY",
      auto_delete_objects |-> TRUE,
      bucket_name         |-> physical["final_data"],
      bucket_arn          |-> GetAtt("final_data", "Arn") ]

scripts_bucket ==
    [ id                  |-> "glue_scripts",
      versioned           |-> TRUE,
      public_read_access  |-> FALSE,
      block_public_access |-> "BLOCK_ALL",
      removal_policy      |-> "DESTROY",
      auto_delete_objects |-> TRUE,
      bucket_name         |-> physical["glue_scripts"],
      bucket_arn          |-> GetAtt("glue_scripts", "Arn") ]

\* What the Bucket construct registers: the bucket; a bucket policy when
\* public read access or auto-deletion adds a statement to it; and for
\* auto_delete_objects the custom resource with its provider, a function with
\* a role of its own, shared by the buckets of the stack.
BucketResources(b) ==
    << <<"AWS::S3::Bucket", b.id>> >>
    \o (IF b.public_read_access \/ b.auto_delete_objects
        THEN << <<"AWS::S3::BucketPolicy", b.id \o "/Policy">> >>
        ELSE <<>>)
    \o (IF b.auto_delete_objects
        THEN << <<"Custom::S3AutoDeleteObjects", b.id \o "/AutoDeleteObjectsCustomResource">>,
                <<"AWS::IAM::Role", "Custom::S3AutoDeleteObjectsCustomResourceProvider/Role">>,
                <<"AWS::Lambda::Function", "Custom::S3AutoDeleteObjectsCustomResourceProvider/Handler">> >>
        ELSE <<>>)

Construct_data_bucket ==
    /\ At("data_bucket")
    /\ buckets' = buckets @@ ("final_data" :> data_bucket)
    /\ template' = Register(template, BucketResources(data_bucket))
    /\ pc' = pc + 1
    /\ UNCHANGED <<physical, statement, roles, deployments, workflows, jobs,
                   triggers>>
    /\ UNCHANGED rvars

Construct_scripts_bucket ==
    /\ At("scripts_bucket")
    /\ buckets' = buckets @@ ("glue_scripts" :> scripts_bucket)
    /\ template' = Register(template, BucketResources(scripts_bucket))
    /\ pc' = pc + 1
    /\ UNCHANGED <<physical, statement, roles, deployments, workflows, jobs,
                   triggers>>
    /\ UNCHANGED rvars

\* The S3 actions of Bucket.grant_read and Bucket.grant_read_write.
BUCKET_READ_ACTIONS == <<"s3:GetObject*", "s3:GetBucket*", "s3:List*">>
BUCKET_WRITE_ACTIONS ==
    <<"s3:DeleteObject*", "s3:PutObject", "s3:PutObjectLegalHold",
      "s3:PutObjectRetention", "s3:PutObjectTagging",
      "s3:PutObjectVersionTagging", "s3:Abort*">>

\* The statement a grant on bucket b adds to the grantee's policy.
Grant(b, actions) ==
    [ effect    |-> "ALLOW",
      actions   |-> actions,
      resources |-> <<b.bucket_arn, b.bucket_arn \o "/*">> ]

\* data_bucket.grant_read_write(glue_role)
grant_read_write ==
    /\ At("grant_read_write")
    /\ AddToPrincipalPolicy("my_glue_role",
            Grant(buckets["final_data"],
                  BUCKET_READ_ACTIONS \o BUCKET_WRITE_ACTIONS))
    /\ pc' = pc + 1
    /\ UNCHANGED <<physical, statement, buckets, deployments, workflows,
                   jobs, triggers>>
    /\ UNCHANGED rvars

\* scripts_bucket.grant_read(glue_role)
grant_read ==
    /\ At("grant_read")
    /\ AddToPrincipalPolicy("my_glue_role",
            Grant(buckets["glue_scripts"], BUCKET_READ_ACTIONS))
    /\ pc' = pc + 1
    /\ UNCHANGED <<physical, statement, buckets, deployments, workflows,
                   jobs, triggers>>
    /\ UNCHANGED rvars

\* s3deploy.BucketDeployment(self, "deploy_assets", ...)
deploy_assets ==
    [ id                     |-> "deploy_assets",
      sources                |-> <<"./assets/">>,
      destination_bucket     |-> buckets["glue_scripts"].bucket_name,
      destination_key_prefix |-> "assets/" ]

\* What the BucketDeployment construct registers: the custom resource and its
\* handler, a function shared by the deployments of the stack, with a service
\* role, that role's policy and the layer holding the AWS CLI.
DeploymentResources(d) ==
    << <<"AWS::Lambda::LayerVersion", d.id \o "/AwsCliLayer">>,
       <<"AWS::IAM::Role", "Custom::CDKBucketDeployment/ServiceRole">>,
       <<"AWS::IAM::Policy", "Custom::CDKBucketDeployment/ServiceRole/DefaultPolicy">>,
       <<"AWS::Lambda::Function", "Custom::CDKBucketDeployment/Handler">>,
       <<"Custom::CDKBucketDeployment", d.id \o "/CustomResource">> >>

Construct_deploy_assets ==
    /\ At("deploy_assets")
    /\ deployments' = deployments @@ ("deploy_assets" :> deploy_assets)
    /\ template' = Register(template, DeploymentResources(deploy_assets))
    /\ pc' = pc + 1
    /\ UNCHANGED <<physical, statement, roles, buckets, workflows, jobs,
                   triggers>>
    /\ UNCHANGED rvars

\* glue.CfnWorkflow(self, "ticketmaster_workflow", description=...): no name
\* is passed, so the construct's name property is None.
my_workflow ==
    [ id          |-> "ticketmaster_workflow",
      name        |-> NoneValue,
      description |-> "Workflow for processing Ticketmaster data to parquet" ]

Construct_my_workflow ==
    /\ At("my_workflow")
    /\ workflows' = workflows @@ ("ticketmaster_workflow" :> my_workflow)
    /\ template' = Register(template,
                            << <<"AWS::Glue::Workflow", "ticketmaster_workflow">> >>)
    /\ pc' = pc + 1
    /\ UNCHANGED <<physical, statement, roles, buckets, deployments, jobs,
                   triggers>>
    /\ UNCHANGED rvars
\* glue.CfnJob(self, id, name=..., command=..., role=..., ...).  Properties
\* the code does not pass (max_retries, execution_property) are absent.
CfnJob(name, script, arguments) ==
    [ name              |-> name,
      command           |-> [ name            |-> "pythonshell",
                              python_version  |-> "3.9",
                              script_location |-> script ],
      role              |-> roles["my_glue_role"].role_arn,
      glue_version      |-> "3.0",
      max_capacity      |-> 1,
      timeout           |-> 3,
      max_retries       |-> <<>>,
      max_concurrent_runs |-> <<>>,
      default_arguments |-> arguments ]

ticketmaster_download_job ==
    CfnJob("download_ticketmaster_data",
           "s3://" \o buckets["glue_scripts"].bucket_name
                   \o "/assets/ticketmaster_to_parquet.py",
           [k \in {"--my_bucket"} |-> buckets["final_data"].bucket_name])

\* The second job with the script of the first.
fragments_to_parquet_job_same_script ==
    CfnJob("fragments_to_parquet_job",
           "s3://" \o buckets["glue_scripts"].bucket_name
                   \o "/assets/ticketmaster_to_parquet.py",
           [k \in {"--my_bucket"} |-> buckets["final_data"].bucket_name])

fragments_to_parquet_job ==
    CfnJob("fragments_to_parquet_job",
           "s3://" \o buckets["glue_scripts"].bucket_name
                   \o "/assets/merge_parquet_final.py",
           [k \in {"--my_bucket"} |-> buckets["final_data"].bucket_name])

parquet_analysis_job ==
    CfnJob("parquet_analysis_job",
           "s3://" \o buckets["glue_scripts"].bucket_name
                   \o "/assets/V2TicketMasterAnalysis_Final.py",
           [k \in {"--my_bucket", "--additional-python-modules"} |->
                IF k = "--my_bucket"
                THEN buckets["final_data"].bucket_name
                ELSE "dython==0.7.5,matplotlib==3.8.3,folium==0.16.0"])

DeclareJob(id, job) ==
    /\ jobs' = jobs @@ (id :> job)
    /\ template' = Register(template, << <<"AWS::Glue::Job", id>> >>)
    /\ pc' = pc + 1
    /\ UNCHANGED <<physical, statement, roles, buckets, deployments,
                   workflows, triggers>>
    /\ UNCHANGED rvars

Construct_ticketmaster_download_job ==
    /\ At("ticketmaster_download_job")
    /\ DeclareJob("download_ticketmaster_data", ticketmaster_download_job)

Construct_fragments_to_parquet_job ==
    /\ At("fragments_to_parquet_job")
    /\ DeclareJob("fragments_to_parquet_job", fragments_to_parquet_job)

Construct_parquet_analysis_job ==
    /\ At("parquet_analysis_job")
    /\ DeclareJob("parquet_analysis_job", parquet_analysis_job)

\* The first trigger with the hour of the schedule in local time.
job_1_trigger_local_time ==
    [ name              |-> "initial_trigger",
      actions           |-> <<[job_name |-> jobs["download_ticketmaster_data"].name]>>,
      type              |-> "SCHEDULED",
      start_on_creation |-> TRUE,
      schedule          |-> "cron(0 4 * * ? *)",
      workflow_name     |-> workflows["ticketmaster_workflow"].name,
      predicate         |-> <<>> ]

\* The second trigger with FAILED as the state of its condition.
job_2_trigger_on_failure ==
    [ name              |-> "frag_trigger",
      actions           |-> <<[job_name |-> jobs["fragments_to_parquet_job"].name]>>,
      type              |-> "CONDITIONAL",
      start_on_creation |-> TRUE,
      schedule          |-> NoneValue,
      workflow_name     |-> workflows["ticketmaster_workflow"].name,
      predicate         |-> <<[ conditions |->
                                  <<[ state            |-> "FAILED",
                                      logical_operator |-> "EQUALS",
                                      job_name |-> jobs["download_ticketmaster_data"].name ]>> ]>> ]

\* The third trigger with TIMEOUT as the state of its condition.
job_3_trigger_on_timeout ==
    [ name              |-> "analysis_trigger",
      actions           |-> <<[job_name |-> jobs["parquet_analysis_job"].name]>>,
      type              |-> "CONDITIONAL",
      start_on_creation |-> TRUE,
      schedule          |-> NoneValue,
      workflow_name     |-> workflows["ticketmaster_workflow"].name,
      predicate         |-> <<[ conditions |->
                                  <<[ state            |-> "TIMEOUT",
                                      logical_operator |-> "EQUALS",
                                      job_name |-> jobs["fragments_to_parquet_job"].name ]>> ]>> ]

\* The third trigger with the first job as its condition, as the second has.
job_3_trigger_on_job_1 ==
    [ name              |-> "analysis_trigger",
      actions           |-> <<[job_name |-> jobs["parquet_analysis_job"].name]>>,
      type              |-> "CONDITIONAL",
      start_on_creation |-> TRUE,
      schedule          |-> NoneValue,
      workflow_name     |-> workflows["ticketmaster_workflow"].name,
      predicate         |-> <<[ conditions |->
                                  <<[ state            |-> "SUCCEEDED",
                                      logical_operator |-> "EQUALS",
                                      job_name |-> jobs["download_ticketmaster_data"].name ]>> ]>> ]

\* The third trigger left in state CREATED.
job_3_trigger_not_started ==
    [ name              |-> "analysis_trigger",
      actions           |-> <<[job_name |-> jobs["parquet_analysis_job"].name]>>,
      type              |-> "CONDITIONAL",
      start_on_creation |-> FALSE,
      schedule          |-> NoneValue,
      workflow_name     |-> workflows["ticketmaster_workflow"].name,
      predicate         |-> <<[ conditions |->
                                  <<[ state            |-> "SUCCEEDED",
                                      logical_operator |-> "EQUALS",
                                      job_name |-> jobs["fragments_to_parquet_job"].name ]>> ]>> ]

\* glue.CfnTrigger(self, id, name=..., actions=..., type=..., ...).  A job or
\* workflow is referenced through the name property of its construct.
job_1_trigger ==
    [ name              |-> "initial_trigger",
      actions           |-> <<[job_name |-> jobs["download_ticketmaster_data"].name]>>,
      type              |-> "SCHEDULED",
      start_on_creation |-> TRUE,
      schedule          |-> "cron(0 11 * * ? *)",
      workflow_name     |-> workflows["ticketmaster_workflow"].name,
      predicate         |-> <<>> ]

job_2_trigger ==
    [ name              |-> "frag_trigger",
      actions           |-> <<[job_name |-> jobs["fragments_to_parquet_job"].name]>>,
      type              |-> "CONDITIONAL",
      start_on_creation |-> TRUE,
      schedule          |-> NoneValue,
      workflow_name     |-> workflows["ticketmaster_workflow"].name,
      predicate         |-> <<[ conditions |->
                                  <<[ state            |-> "SUCCEEDED",
                                      logical_operator |-> "EQUALS",
                                      job_name |-> jobs["download_ticketmaster_data"].name ]>> ]>> ]

job_3_trigger ==
    [ name              |-> "analysis_trigger",
      actions           |-> <<[job_name |-> jobs["parquet_analysis_job"].name]>>,
      type              |-> "CONDITIONAL",
      start_on_creation |-> TRUE,
      schedule          |-> NoneValue,
      workflow_name     |-> workflows["ticketmaster_workflow"].name,
      predicate         |-> <<[ conditions |->
                                  <<[ state            |-> "SUCCEEDED",
                                      logical_operator |-> "EQUALS",
                                      job_name |-> jobs["fragments_to_parquet_job"].name ]>> ]>> ]

DeclareTrigger(id, trigger) ==
    /\ triggers' = triggers @@ (id :> trigger)
    /\ template' = Register(template, << <<"AWS::Glue::Trigger", id>> >>)
    /\ pc' = pc + 1
    /\ UNCHANGED <<physical, statement, roles, buckets, deployments,
                   workflows, jobs>>
    /\ UNCHANGED rvars

Construct_job_1_trigger ==
    /\ At("job_1_trigger")
    /\ DeclareTrigger("initial_trigger", job_1_trigger)

Construct_job_2_trigger ==
    /\ At("job_2_trigger")
    /\ DeclareTrigger("frag_trigger", job_2_trigger)

Construct_job_3_trigger ==
    /\ At("job_3_trigger")
    /\ DeclareTrigger("analysis_trigger", job_3_trigger)

Construct ==
    \/ Construct_glue_role
    \/ Construct_secrets_manager_policy
    \/ add_to_policy
    \/ Construct_data_bucket
    \/ Construct_scripts_bucket
    \/ grant_read_write
    \/ grant_read
    \/ Construct_deploy_assets
    \/ Construct_my_workflow
    \/ Construct_ticketmaster_download_job
    \/ Construct_fragments_to_parquet_job
    \/ Construct_parquet_analysis_job
    \/ Construct_job_1_trigger
    \/ Construct_job_2_trigger
    \/ Construct_job_3_trigger
(***************************************************************************)
(* Part 2: execution of the declared graph by the Glue service.  Jobs and  *)
(* triggers are known to the service by their name property.  Job runs are *)
(* started by triggers only.                                               *)
(***************************************************************************)

MinutesPerDay == 24 * 60

Range(f) == {f[x] : x \in DOMAIN f}
Triggers == Range(triggers)
JobNames == {j.name : j \in Range(jobs)}
JobNamed(n) == CHOOSE j \in Range(jobs) : j.name = n

\* The value of an optional property, or the service's default.
Default(opt, d) == IF opt = <<>> THEN d ELSE opt[1]
MaxRetries(n) == Default(JobNamed(n).max_retries, 0)
MaxConcurrentRuns(n) == Default(JobNamed(n).max_concurrent_runs, 1)

TerminalStates == {"SUCCEEDED", "FAILED", "STOPPED", "TIMEOUT"}

NoCause == [kind |-> NoneValue, job |-> NoneValue, state |-> NoneValue]
ScheduleCause == [kind |-> "SCHEDULE", job |-> NoneValue, state |-> NoneValue]
CompletionCause(e) == [kind |-> "COMPLETION", job |-> e.job, state |-> e.state]
NoRun == [state |-> NoneValue, elapsed |-> 0, attempt |-> 0,
          by |-> NoneValue, cause |-> NoCause]

\* A cron expression of the form cron(m h * * ? *) holds once a day, at h:m.
CronMatches(expr, minuteOfDay) ==
    expr = "cron(" \o ToString(minuteOfDay % 60) \o " "
                   \o ToString(minuteOfDay \div 60) \o " * * ? *)"

\* Deployment creates the declared resources; a trigger declared with
\* start_on_creation is activated, any other is left in state CREATED.
Deploy ==
    /\ Done
    /\ ~deployed
    /\ deployed' = TRUE
    /\ trigState' = [n \in {t.name : t \in Triggers} |->
                        IF (CHOOSE t \in Triggers : t.name = n).start_on_creation
                        THEN "ACTIVATED" ELSE "CREATED"]
    /\ run' = [n \in JobNames |-> NoRun]
    /\ lastState' = [n \in JobNames |-> NoneValue]
    /\ nFired' = [n \in {t.name : t \in Triggers} |-> 0]
    /\ nStart' = [n \in JobNames |-> 0]
    /\ nSucc' = [n \in JobNames |-> 0]
    /\ UNCHANGED <<clock, day, due, queue, events>>
    /\ UNCHANGED cvars

\* An activated SCHEDULED trigger fires when its schedule holds.
Due(t) ==
    /\ t.type = "SCHEDULED"
    /\ trigState[t.name] = "ACTIVATED"
    /\ CronMatches(t.schedule, clock)
    /\ t.name \notin due

FireScheduled(t) ==
    /\ deployed
    /\ Due(t)
    /\ due' = due \cup {t.name}
    /\ queue' = queue \cup {[trigger |-> t.name, cause |-> ScheduleCause, age |-> 0]}
    /\ nFired' = [nFired EXCEPT ![t.name] = @ + 1]
    /\ UNCHANGED <<deployed, trigState, clock, day, events, run, lastState,
                   nStart, nSucc>>
    /\ UNCHANGED cvars

\* The actions of a fired trigger: each names a job, for which a run is
\* started unless the job is unknown or already has its maximum number of
\* concurrent runs.
Starts(f, n) ==
    /\ \E t \in Triggers :
          /\ t.name = f.trigger
          /\ \E i \in 1..Len(t.actions) : t.actions[i].job_name = n
    /\ (IF run[n].state = "RUNNING" THEN 1 ELSE 0) < MaxConcurrentRuns(n)

StartActions(f) ==
    /\ deployed
    /\ f \in queue
    /\ queue' = queue \ {f}
    /\ run' = [n \in DOMAIN run |->
                 IF Starts(f, n)
                 THEN [state |-> "RUNNING", elapsed |-> 0, attempt |-> 1,
                       by |-> f.trigger, cause |-> f.cause]
                 ELSE run[n]]
    /\ nStart' = [n \in DOMAIN nStart |->
                    IF Starts(f, n) THEN nStart[n] + 1 ELSE nStart[n]]
    /\ UNCHANGED <<deployed, trigState, clock, day, due, events, lastState,
                   nFired, nSucc>>
    /\ UNCHANGED cvars

\* A run ends in a terminal state, TIMEOUT when it has run for the job's
\* timeout.  A failed run is started again while the job has retries left;
\* otherwise the completion is reported to the trigger evaluation.
Retried(n, outcome) ==
    /\ outcome \in {"FAILED", "TIMEOUT"}
    /\ run[n].attempt <= MaxRetries(n)

JobEnds(n, outcome) ==
    /\ deployed
    /\ n \in DOMAIN run
    /\ run[n].state = "RUNNING"
    /\ outcome = "TIMEOUT" => run[n].elapsed = JobNamed(n).timeout
    /\ IF Retried(n, outcome)
       THEN /\ run' = [run EXCEPT ![n].elapsed = 0, ![n].attempt = @ + 1]
            /\ nStart' = [nStart EXCEPT ![n] = @ + 1]
            /\ UNCHANGED <<events, nSucc>>
       ELSE /\ run' = [run EXCEPT ![n].state = outcome, ![n].elapsed = 0]
            /\ events' = events \cup {[job |-> n, state |-> outcome, age |-> 0]}
            /\ nSucc' = [nSucc EXCEPT ![n] =
                            IF outcome = "SUCCEEDED" THEN @ + 1 ELSE @]
            /\ UNCHANGED nStart
    /\ UNCHANGED <<deployed, trigState, clock, day, due, queue, lastState,
                   nFired>>
    /\ UNCHANGED cvars

\* A condition of a predicate, against the last terminal states of the jobs.
Satisfied(c, last) ==
    /\ c.job_name \in DOMAIN last
    /\ IF c.logical_operator = "EQUALS"
       THEN last[c.job_name] = c.state
       ELSE FALSE

\* An activated CONDITIONAL trigger fires on the completion e of a job it
\* watches when all the conditions of its predicate hold.
Fires(t, e, last) ==
    /\ t.type = "CONDITIONAL"
    /\ trigState[t.name] = "ACTIVATED"
    /\ Len(t.predicate) = 1
    /\ \E i \in 1..Len(t.predicate[1].conditions) :
          t.predicate[1].conditions[i].job_name = e.job
    /\ \A i \in 1..Len(t.predicate[1].conditions) :
          Satisfied(t.predicate[1].conditions[i], last)

EvaluateTriggers(e) ==
    /\ deployed
    /\ e \in events
    /\ events' = events \ {e}
    /\ lastState' = [lastState EXCEPT ![e.job] = e.state]
    /\ queue' = queue \cup
                  {[trigger |-> t.name, cause |-> CompletionCause(e), age |-> 0] :
                      t \in {u \in Triggers : Fires(u, e, lastState')}}
    /\ nFired' = [n \in DOMAIN nFired |->
                    IF \E t \in Triggers : t.name = n /\ Fires(t, e, lastState')
                    THEN nFired[n] + 1 ELSE nFired[n]]
    /\ UNCHANGED <<deployed, trigState, clock, day, due, run, nStart, nSucc>>
    /\ UNCHANGED cvars

\* Time passes: a minute while a firing, a completion or a run is pending,
\* and otherwise the time to the next minute at which a schedule holds, since
\* nothing else can happen before it.  The service acts on a firing or a
\* completion within MaxDelay minutes, a schedule that holds fires within its
\* minute, and no run outlives its timeout.
Quiescent ==
    /\ queue = {}
    /\ events = {}
    /\ \A n \in DOMAIN run : run[n].state # "RUNNING"

\* The minutes of the day at which the schedule of an activated trigger holds.
ScheduledMinutes ==
    {m \in 0..(MinutesPerDay - 1) :
        \E t \in Triggers :
            /\ t.type = "SCHEDULED"
            /\ trigState[t.name] = "ACTIVATED"
            /\ CronMatches(t.schedule, m)}

Step ==
    IF Quiescent
    THEN LET waits == {((m - clock - 1) % MinutesPerDay) + 1 : m \in ScheduledMinutes}
                        \cup {MinutesPerDay}
         IN CHOOSE d \in waits : \A k \in waits : d <= k
    ELSE 1

Tick ==
    /\ deployed
    /\ day * MinutesPerDay + clock + Step < MaxDays * MinutesPerDay
    /\ \A t \in Triggers : ~Due(t)
    /\ \A f \in queue : f.age < MaxDelay
    /\ \A e \in events : e.age < MaxDelay
    /\ \A n \in DOMAIN run :
          run[n].state = "RUNNING" => run[n].elapsed < JobNamed(n).timeout
    /\ clock' = (clock + Step) % MinutesPerDay
    /\ day' = day + ((clock + Step) \div MinutesPerDay)
    /\ due' = {}
    /\ queue' = {[f EXCEPT !.age = @ + 1] : f \in queue}
    /\ events' = {[e EXCEPT !.age = @ + 1] : e \in events}
    /\ run' = [n \in DOMAIN run |->
                 IF run[n].state = "RUNNING"
                 THEN [run[n] EXCEPT !.elapsed = @ + 1]
                 ELSE run[n]]
    /\ UNCHANGED <<deployed, trigState, lastState, nFired, nStart, nSucc>>
    /\ UNCHANGED cvars

(***************************************************************************)
(* Specifications                                                          *)
(***************************************************************************)

Injective(f) == \A a, b \in DOMAIN f : f[a] = f[b] => a = b

Init ==
    /\ pc = 1
    /\ physical \in {f \in [BucketIds -> PhysicalNames] : Injective(f)}
    /\ statement = <<>>
    /\ roles = Empty
    /\ buckets = Empty
    /\ deployments = Empty
    /\ workflows = Empty
    /\ jobs = Empty
    /\ triggers = Empty
    /\ template = <<>>
    /\ deployed = FALSE
    /\ trigState = Empty
    /\ clock = 0
    /\ day = 0
    /\ due = {}
    /\ queue = {}
    /\ events = {}
    /\ run = Empty
    /\ lastState = Empty
    /\ nFired = Empty
    /\ nStart = Empty
    /\ nSucc = Empty

Next ==
    \/ Construct
    \/ Deploy
    \/ \E t \in Triggers : FireScheduled(t)
    \/ \E f \in queue : StartActions(f)
    \/ \E n \in JobNames, o \in TerminalStates : JobEnds(n, o)
    \/ \E e \in events : EvaluateTriggers(e)
    \/ Tick

Spec == Init /\ [][Next]_vars

\* The graph under the assumptions of a run without failures: every run ends
\* SUCCEEDED, and the service does not postpone for ever a start, the end of
\* a run or an evaluation that is pending.
NextSucceeding ==
    \/ Construct
    \/ Deploy
    \/ \E t \in Triggers : FireScheduled(t)
    \/ \E f \in queue : StartActions(f)
    \/ \E n \in JobNames : JobEnds(n, "SUCCEEDED")
    \/ \E e \in events : EvaluateTriggers(e)
    \/ Tick

LiveSpec ==
    /\ Init
    /\ [][NextSucceeding]_vars
    /\ WF_vars(\E f \in queue : StartActions(f))
    /\ WF_vars(\E n \in JobNames : JobEnds(n, "SUCCEEDED"))
    /\ WF_vars(\E e \in events : EvaluateTriggers(e))
(***************************************************************************)
(* Properties                                                              *)
(***************************************************************************)

Job1 == "download_ticketmaster_data"
Job2 == "fragments_to_parquet_job"
Job3 == "parquet_analysis_job"

\* A counter or a table of the service, read before deployment as well.
Ctr(f, n) == IF n \in DOMAIN f THEN f[n] ELSE 0
Last(n) == IF n \in DOMAIN lastState THEN lastState[n] ELSE NoneValue
RunOf(n) == IF n \in DOMAIN run THEN run[n] ELSE NoRun

\* The triggers whose action is job n, and the conditions of a trigger.
TriggersOf(n) ==
    {t \in Triggers : \E i \in 1..Len(t.actions) : t.actions[i].job_name = n}
Conditions(t) == IF Len(t.predicate) = 1 THEN t.predicate[1].conditions ELSE <<>>

SucceededCause(n) == [kind |-> "COMPLETION", job |-> n, state |-> "SUCCEEDED"]

\* C1: job2 never starts unless job1 succeeded and job3 never starts unless
\* job2 succeeded: at any time the runs started of job2 are no more than the
\* runs of job1 that ended SUCCEEDED, likewise for job3 and job2, and the run
\* of job2 (job3) was started on a SUCCEEDED completion of job1 (job2).
C1_SuccessGated ==
    /\ Ctr(nStart, Job2) <= Ctr(nSucc, Job1)
    /\ Ctr(nStart, Job3) <= Ctr(nSucc, Job2)
    /\ RunOf(Job2).attempt > 0 => RunOf(Job2).cause = SucceededCause(Job1)
    /\ RunOf(Job3).attempt > 0 => RunOf(Job3).cause = SucceededCause(Job2)

\* The whole chain ran on the first day; on the second day job1 failed and
\* job2 was not started again.
C1_Witness ==
    /\ Ctr(nStart, Job1) = 2
    /\ Ctr(nStart, Job2) = 1
    /\ Ctr(nStart, Job3) = 1
    /\ RunOf(Job1).state = "FAILED"
    /\ Quiescent

\* C2: no trigger fires on a completion that is not SUCCEEDED, so no run is
\* started as a consequence of a failed, timed-out or stopped run, and no run
\* is a retry: every firing and every run caused by a completion is caused by
\* a SUCCEEDED one, every run is a first attempt, and the runs started of a
\* job are no more than the firings of its trigger.
C2_NoFailurePath ==
    /\ \A f \in queue :
          f.cause.kind = "COMPLETION" => f.cause.state = "SUCCEEDED"
    /\ \A n \in DOMAIN run :
          /\ run[n].cause.kind = "COMPLETION" => run[n].cause.state = "SUCCEEDED"
          /\ run[n].attempt <= 1
          /\ \A t \in TriggersOf(n) : nStart[n] <= nFired[t.name]
    /\ \A n \in {Job1, Job2} :
          (Last(n) \in TerminalStates \ {"SUCCEEDED"} /\ RunOf(n).state = Last(n))
              => \A f \in queue : f.cause.job # n

\* job1 ended FAILED, the completion has been evaluated, and nothing was
\* started or queued.
C2_Witness ==
    /\ Last(Job1) = "FAILED"
    /\ Quiescent
    /\ Ctr(nStart, Job1) = 1
    /\ Ctr(nStart, Job2) = 0
    /\ Ctr(nStart, Job3) = 0

\* The dependency relation between jobs: <<up, down>> when a trigger whose
\* action is down has a condition on up.
Depends ==
    UNION {{<<Conditions(t)[i].job_name, t.actions[k].job_name>> :
                i \in 1..Len(Conditions(t)), k \in 1..Len(t.actions)} :
              t \in Triggers}
Compose(R, S) == {<<pq[1][1], pq[2][2]>> : pq \in {x \in R \X S : x[1][2] = x[2][1]}}
Closure(R) ==
    LET F[i \in 0..Cardinality(JobNames)] ==
            IF i = 0 THEN R ELSE F[i-1] \cup Compose(F[i-1], R)
    IN F[Cardinality(JobNames)]

\* C3: the chain is strictly linear: every trigger has one action, no
\* trigger has more than one condition, each job is the action of exactly
\* one trigger, the trigger of job2 has job1 SUCCEEDED as its only condition,
\* the trigger of job3 has job2 SUCCEEDED as its only condition, and no job
\* depends on itself, directly or not.
C3_LinearChain ==
    Done =>
        /\ \A t \in Triggers : Len(t.actions) = 1 /\ Len(Conditions(t)) <= 1
        /\ \A n \in JobNames : Cardinality(TriggersOf(n)) = 1
        /\ \A t \in TriggersOf(Job2) :
              Conditions(t) = <<[state |-> "SUCCEEDED",
                                 logical_operator |-> "EQUALS",
                                 job_name |-> Job1]>>
        /\ \A t \in TriggersOf(Job3) :
              Conditions(t) = <<[state |-> "SUCCEEDED",
                                 logical_operator |-> "EQUALS",
                                 job_name |-> Job2]>>
        /\ \A t \in TriggersOf(Job1) : Conditions(t) = <<>>
        /\ \A n \in JobNames : <<n, n>> \notin Closure(Depends)

C3_Witness == Done /\ Cardinality(Triggers) = 3 /\ Cardinality(Depends) = 2

\* C4: the trigger of job1 is SCHEDULED with the schedule cron(0 11 * * ? *),
\* the triggers of job2 and job3 are CONDITIONAL without a schedule; job1 is
\* started by a schedule firing only, at 11:00, and job2 and job3 never are.
C4_ScheduleTyped ==
    /\ Done =>
          /\ \A t \in TriggersOf(Job1) :
                t.type = "SCHEDULED" /\ t.schedule = "cron(0 11 * * ? *)"
          /\ \A t \in TriggersOf(Job2) \cup TriggersOf(Job3) :
                t.type = "CONDITIONAL" /\ t.schedule = NoneValue
    /\ RunOf(Job1).attempt > 0 => RunOf(Job1).cause.kind = "SCHEDULE"
    /\ RunOf(Job2).cause.kind # "SCHEDULE"
    /\ RunOf(Job3).cause.kind # "SCHEDULE"
    /\ \A f \in queue :
          f.cause.kind = "SCHEDULE" =>
              /\ f.trigger = "initial_trigger"
              /\ clock - f.age = 11 * 60

\* All three jobs have been started and the schedule has just fired again.
C4_Witness ==
    /\ RunOf(Job3).attempt > 0
    /\ \E f \in queue : f.cause.kind = "SCHEDULE"

\* C5: the workflow has a name and every trigger's workflow_name is that
\* name.
C5_WorkflowNamed ==
    Done =>
        /\ workflows["ticketmaster_workflow"].name # NoneValue
        /\ \A t \in Triggers :
              t.workflow_name = workflows["ticketmaster_workflow"].name

\* The statements of role r on the bucket b, and the actions they allow.
Allowed(r, b) ==
    {a \in Range(BUCKET_READ_ACTIONS) \cup Range(BUCKET_WRITE_ACTIONS) :
        \E i \in 1..Len(r.statements) :
            /\ r.statements[i].effect = "ALLOW"
            /\ b.bucket_arn \in Range(r.statements[i].resources)
            /\ a \in Range(r.statements[i].actions)}
HoldsSecretRead(r) ==
    \E i \in 1..Len(r.statements) :
        "secretsmanager:GetSecretValue" \in Range(r.statements[i].actions)

\* C6: whenever a job is declared, the role it references is the role of the
\* stack, which then holds read-write on the data bucket, read-only on the
\* scripts bucket, and the secret-read statement.
C6_GrantsBeforeJobs ==
    \A id \in DOMAIN jobs :
        /\ "my_glue_role" \in DOMAIN roles
        /\ jobs[id].role = roles["my_glue_role"].role_arn
        /\ {"final_data", "glue_scripts"} \subseteq DOMAIN buckets
        /\ Allowed(roles["my_glue_role"], buckets["final_data"])
              = Range(BUCKET_READ_ACTIONS) \cup Range(BUCKET_WRITE_ACTIONS)
        /\ Allowed(roles["my_glue_role"], buckets["glue_scripts"])
              = Range(BUCKET_READ_ACTIONS)
        /\ HoldsSecretRead(roles["my_glue_role"])

C6_Witness == Cardinality(DOMAIN jobs) = 3 /\ ~Done

\* C7, as stated: the registered resources are exactly 2 buckets, 1 role,
\* 3 jobs, 3 triggers and 1 workflow.
C7_ExactCounts ==
    Done =>
        /\ Count("AWS::S3::Bucket") = 2
        /\ Count("AWS::IAM::Role") = 1
        /\ Count("AWS::Glue::Job") = 3
        /\ Count("AWS::Glue::Trigger") = 3
        /\ Count("AWS::Glue::Workflow") = 1

\* C7, amended: __init__ declares 2 buckets, 1 role, 3 jobs, 3 triggers and
\* 1 workflow, and the registered resources are exactly 2 buckets, 3 jobs,
\* 3 triggers, 1 workflow and 3 roles: the declared role and the roles of the
\* handlers of bucket auto-deletion and of the asset deployment.
C7_DeclaredCounts ==
    Done =>
        /\ Cardinality(DOMAIN buckets) = 2
        /\ Cardinality(DOMAIN roles) = 1
        /\ Cardinality(DOMAIN jobs) = 3
        /\ Cardinality(DOMAIN triggers) = 3
        /\ Cardinality(DOMAIN workflows) = 1
        /\ Count("AWS::S3::Bucket") = 2
        /\ Count("AWS::Glue::Job") = 3
        /\ Count("AWS::Glue::Trigger") = 3
        /\ Count("AWS::Glue::Workflow") = 1
        /\ {template[k][2] : k \in {i \in 1..Len(template) :
                                        template[i][1] = "AWS::IAM::Role"}}
              = {"my_glue_role",
                 "Custom::S3AutoDeleteObjectsCustomResourceProvider/Role",
                 "Custom::CDKBucketDeployment/ServiceRole"}

C7_Witness == Done /\ Count("AWS::IAM::Role") = 3 /\ ~deployed

\* C8: the statement attached to the role by add_to_policy allows exactly
\* secretsmanager:GetSecretValue on exactly the one secret ARN, and no other
\* statement of the role allows an action on secrets.
C8_SecretScoped ==
    \A id \in DOMAIN roles :
        Len(roles[id].statements) >= 1 =>
            /\ roles[id].statements[1] =
                  [ effect    |-> "ALLOW",
                    actions   |-> <<"secretsmanager:GetSecretValue">>,
                    resources |-> <<"arn:aws:secretsmanager:us-west-2:943686807189:secret:finalproject/daniel/ticketmaster-Gu2UO4">> ]
            /\ \A i \in 2..Len(roles[id].statements) :
                  Range(roles[id].statements[i].actions)
                      \subseteq Range(BUCKET_READ_ACTIONS) \cup Range(BUCKET_WRITE_ACTIONS)

C8_Witness == Done /\ Len(roles["my_glue_role"].statements) = 3

ScriptFiles ==
    {"ticketmaster_to_parquet.py", "merge_parquet_final.py",
     "V2TicketMasterAnalysis_Final.py"}

\* C9: there are three jobs, their script locations are pairwise different,
\* and each is s3://<name of the scripts bucket>/<prefix><file>, the prefix
\* being the destination_key_prefix of the asset deployment into that bucket.
C9_ScriptKeys ==
    /\ Done => Cardinality(DOMAIN jobs) = 3
    /\ \A a, b \in DOMAIN jobs :
          a # b => jobs[a].command.script_location # jobs[b].command.script_location
    /\ \A a \in DOMAIN jobs :
          /\ deployments["deploy_assets"].destination_bucket
                = buckets["glue_scripts"].bucket_name
          /\ deployments["deploy_assets"].destination_key_prefix = "assets/"
          /\ \E file \in ScriptFiles :
                jobs[a].command.script_location =
                    "s3://" \o deployments["deploy_assets"].destination_bucket
                            \o "/"
                            \o deployments["deploy_assets"].destination_key_prefix
                            \o file

C9_Witness ==
    /\ Done
    /\ {jobs[a].command.script_location : a \in DOMAIN jobs}
          = {"s3://bucket-b/assets/" \o file : file \in ScriptFiles}

\* C10: when every run ends SUCCEEDED and the service is fair, every firing
\* of initial_trigger is eventually followed by a start of job1, of job2 and
\* of job3, and the jobs start in the order job1, job2, job3: job3 has never
\* been started more often than job2, job2 than job1, job1 than the trigger
\* has fired.
C10_ChainCompletes ==
    /\ [](/\ Ctr(nStart, Job1) <= Ctr(nFired, "initial_trigger")
          /\ Ctr(nStart, Job2) <= Ctr(nStart, Job1)
          /\ Ctr(nStart, Job3) <= Ctr(nStart, Job2))
    /\ \A k \in 1..MaxDays :
          (Ctr(nFired, "initial_trigger") >= k) ~> (Ctr(nStart, Job3) >= k)

\* Two firings of the schedule, each followed by the three jobs.
C10_Witness ==
    /\ Ctr(nFired, "initial_trigger") = 2
    /\ Ctr(nStart, Job1) = 2
    /\ Ctr(nStart, Job2) = 2
    /\ Ctr(nStart, Job3) = 2
====
